---- MODULE Spec2Model ----
(***************************************************************************)
(* Model of agent_examples/bank_support.py: the MockClient records, the    *)
(* MockDatabase open/close gated store, and the two agent callbacks        *)
(* add_customer_name and customer_balance that open the store, look one    *)
(* client up, await an accessor of the record and close the store.         *)
(*                                                                         *)
(* Money amounts are kept in tenths of a unit (1000 is 10000, 12.4 is 124) *)
(* so that the float sum balance + pending is an integer sum.              *)
(***************************************************************************)
EXTENDS Integers, Sequences, FiniteSets

\* ---------------------------------------------------------------- bounds
NumInst == 2      \* MockDatabase() instances constructed
NumTasks == 2     \* callback invocations that may be in flight together
MaxClientId == 3  \* client ids range over 1..MaxClientId

Inst == 1..NumInst
Task == 1..NumTasks
ClientId == 1..MaxClientId

\* The module-level singleton, db = MockDatabase(), is the first instance.
db == 1

\* The task that runs main(), one support_agent.run(...) after the other.
main == 1

\* ------------------------------------------------------------- MockClient
client_john == [name |-> "John Doe", balance |-> 10000, pending |-> 124]
client_mel == [name |-> "Melissa Rayes", balance |-> 690, pending |-> 1000]
MockClient == {client_john, client_mel}

\* Placeholder where no MockClient object is referenced.
NoClient == [name |-> "", balance |-> 0, pending |-> 0]

get_balance_drop_pending(self, include_pending) == self.balance

get_balance(self, include_pending) ==
    IF include_pending THEN self.balance + self.pending ELSE self.balance

get_name(self) == self.name

\* str.__repr__ of a name without quotes or escapes: single quotes around it.
repr(s) == "'" \o s \o "'"

\* ----------------------------------------------------------- exceptions
NoExc == ""
StoreClosed == "Database is not open"
RecordNotFound == "Client not found"

\* ------------------------------------------------------------------ state
VARIABLES
    open_state,  \* open_state[i]: what self.open_state reads on instance i
    database,    \* MockDatabase.database: the one dict, a class attribute
    frames,      \* frames[t]: the coroutine frame of callback invocation t
    last_call,   \* the most recent call made from outside, and its outcome
    added        \* history: the ids passed to a successful add_client so far

vars == <<open_state, database, frames, last_call, added>>

\* ----------------------------------------------------------- MockDatabase
\* self.database on instance i: no method ever assigns self.database, so
\* the attribute lookup resolves to the class attribute on every instance.
self_database(i) == database

open_toggle(os, self) == [os EXCEPT ![self] = ~@]

open(os, self) == [os EXCEPT ![self] = TRUE]

close_noop(os, self) == os

close(os, self) == [os EXCEPT ![self] = FALSE]

put(d, k, v) == [x \in (DOMAIN d) \cup {k} |-> IF x = k THEN v ELSE d[x]]

add_client_ungated(os, d, self, client_id, client) ==
    [exc |-> NoExc, database |-> put(d, client_id, client)]

add_client_keep_first(os, d, self, client_id, client) ==
    IF ~os[self]
    THEN [exc |-> StoreClosed, database |-> d]
    ELSE [exc |-> NoExc,
          database |-> IF client_id \in DOMAIN d THEN d ELSE put(d, client_id, client)]

add_client(os, d, self, client_id, client) ==
    IF ~os[self]
    THEN [exc |-> StoreClosed, database |-> d]
    ELSE [exc |-> NoExc, database |-> put(d, client_id, client)]

get_client_any(os, d, self, client_id) ==
    IF ~os[self]
    THEN [exc |-> StoreClosed, ret |-> NoClient]
    ELSE IF d = <<>>
    THEN [exc |-> RecordNotFound, ret |-> NoClient]
    ELSE [exc |-> NoExc,
          ret |-> IF client_id \in DOMAIN d THEN d[client_id]
                  ELSE d[CHOOSE k \in DOMAIN d : TRUE]]

get_client(os, d, self, client_id) ==
    IF ~os[self]
    THEN [exc |-> StoreClosed, ret |-> NoClient]
    ELSE IF client_id \notin DOMAIN d
    THEN [exc |-> RecordNotFound, ret |-> NoClient]
    ELSE [exc |-> NoExc, ret |-> d[client_id]]

\* ------------------------------------------------------- call bookkeeping
\* last_call describes the step just taken.  op is the function called, self
\* the MockDatabase instance it ran on, was_open and existed are the flag of
\* that instance and the presence of client_id before the step, exc the
\* exception that reached the caller.  For a callback, entered says that the
\* step began the invocation, outcome is "raised", "suspended" or "returned"
\* and calls lists the store methods the invocation has called so far.  For
\* get_client, follows_add says that the step before was a successful
\* add_client of the same id on the same instance, whose record is client.
\* replaced says that this add_client (or the one a get_client follows) put
\* its record where a different record was stored.
NoCall ==
    [op |-> "", self |-> 0, task |-> 0, client_id |-> 0, client |-> NoClient,
     include_pending |-> FALSE, was_open |-> FALSE, existed |-> FALSE,
     follows_add |-> FALSE, replaced |-> FALSE, entered |-> FALSE,
     outcome |-> "",
     exc |-> NoExc, ret_client |-> NoClient, ret_num |-> 0, ret_str |-> "",
     calls |-> <<>>]

IdleFrame ==
    [pc |-> "idle", fn |-> "", client_id |-> 0, database |-> 0,
     include_pending |-> FALSE, client |-> NoClient, calls |-> <<>>]

Callbacks == {"add_customer_name", "customer_balance"}

Init ==
    /\ open_state = [i \in Inst |-> FALSE]
    /\ database = <<>>
    /\ frames = [t \in Task |-> IdleFrame]
    /\ last_call = NoCall
    /\ added = {}

\* The state bank_support.py is in once imported: db = MockDatabase(),
\* db.open(), db.add_client(1, client_john), db.add_client(2, client_mel),
\* db.close().
InitImported ==
    LET os0 == [i \in Inst |-> FALSE]
        os1 == open(os0, db)
        a1 == add_client(os1, <<>>, db, 1, client_john)
        a2 == add_client(os1, a1.database, db, 2, client_mel)
    IN
    /\ open_state = close(os1, db)
    /\ database = a2.database
    /\ frames = [t \in Task |-> IdleFrame]
    /\ last_call = [NoCall EXCEPT !.op = "close", !.self = db,
                                  !.was_open = os1[db]]
    /\ added = {id \in {1, 2} : a1.exc = NoExc /\ a2.exc = NoExc}

\* ------------------------------------------- direct calls on an instance
CallOpen(i) ==
    /\ open_state' = open(open_state, i)
    /\ last_call' = [NoCall EXCEPT !.op = "open", !.self = i,
                                   !.was_open = open_state[i]]
    /\ UNCHANGED <<database, frames, added>>

CallClose(i) ==
    /\ open_state' = close(open_state, i)
    /\ last_call' = [NoCall EXCEPT !.op = "close", !.self = i,
                                   !.was_open = open_state[i]]
    /\ UNCHANGED <<database, frames, added>>

CallAddClient(i, id, c) ==
    LET r == add_client(open_state, self_database(i), i, id, c) IN
    /\ database' = r.database
    /\ last_call' = [NoCall EXCEPT !.op = "add_client", !.self = i,
                                   !.client_id = id, !.client = c,
                                   !.was_open = open_state[i],
                                   !.existed = (id \in DOMAIN self_database(i)),
                                   !.replaced =
                                       /\ r.exc = NoExc
                                       /\ id \in DOMAIN self_database(i)
                                       /\ self_database(i)[id] # c,
                                   !.exc = r.exc]
    /\ added' = IF r.exc = NoExc THEN added \cup {id} ELSE added
    /\ UNCHANGED <<open_state, frames>>

CallGetClient(i, id) ==
    LET r == get_client(open_state, self_database(i), i, id)
        after == /\ last_call.op = "add_client"
                 /\ last_call.exc = NoExc
                 /\ last_call.self = i
                 /\ last_call.client_id = id
    IN
    /\ last_call' = [NoCall EXCEPT !.op = "get_client", !.self = i,
                                   !.client_id = id,
                                   !.was_open = open_state[i],
                                   !.existed = (id \in DOMAIN self_database(i)),
                                   !.follows_add = after,
                                   !.replaced = (after /\ last_call.replaced),
                                   !.client = IF after THEN last_call.client
                                              ELSE NoClient,
                                   !.exc = r.exc, !.ret_client = r.ret]
    /\ UNCHANGED <<open_state, database, frames, added>>

\* -------------------------------------------------------- agent callbacks
\* What the callback returns once the awaited accessor has completed.
ReturnValue(fr) ==
    [str |-> IF fr.fn = "add_customer_name"
             THEN "The customer's name is " \o repr(get_name(fr.client))
             ELSE "",
     num |-> IF fr.fn = "customer_balance"
             THEN get_balance(fr.client, fr.include_pending)
             ELSE 0]

\* A callback from its get_client call on, os1 being the flags that
\* db_ref.open() has left and made the store methods called so far; no
\* suspension lies between the two calls.  When get_client raises, the exception leaves the callback at once
\* (there is no try/finally), so db_ref.close() is not reached.  Otherwise
\* the accessor coroutine is awaited: it has no suspension of its own, so
\* the callback may run on to its return in the same step; a scheduler that
\* switches tasks at the await is allowed for as well (Resume).
Lookup(os1, made, t, f, i, id, ip) ==
    LET r == get_client(os1, self_database(i), i, id)
        fr == [pc |-> "await", fn |-> f, client_id |-> id, database |-> i,
               include_pending |-> ip, client |-> r.ret,
               calls |-> Append(made, "get_client")]
        call == [NoCall EXCEPT !.op = f, !.self = i, !.task = t,
                               !.client_id = id, !.include_pending = ip,
                               !.entered = TRUE,
                               !.was_open = open_state[i],
                               !.existed = (id \in DOMAIN self_database(i)),
                               !.exc = r.exc, !.calls = fr.calls]
    IN
    /\ frames[t].pc = "idle"
    /\ UNCHANGED <<database, added>>
    /\ \/ /\ r.exc # NoExc
          /\ open_state' = os1
          /\ frames' = frames
          /\ last_call' = [call EXCEPT !.outcome = "raised"]
       \/ /\ r.exc = NoExc
          /\ open_state' = os1
          /\ frames' = [frames EXCEPT ![t] = fr]
          /\ last_call' = [call EXCEPT !.outcome = "suspended"]
       \/ /\ r.exc = NoExc
          /\ open_state' = close(os1, i)
          /\ frames' = frames
          /\ last_call' = [call EXCEPT !.outcome = "returned",
                                       !.ret_str = ReturnValue(fr).str,
                                       !.ret_num = ReturnValue(fr).num,
                                       !.calls = Append(fr.calls, "close")]

\* A plausible slip: the callback looks up without opening the store first.
CallbackNoOpen(t, f, i, id, ip) == Lookup(open_state, <<>>, t, f, i, id, ip)

\* One invocation of a callback up to its first suspension or its end:
\* db_ref = ctx.deps.database, db_ref.open(), then the lookup.
Callback(t, f, i, id, ip) ==
    Lookup(open(open_state, i), <<"open">>, t, f, i, id, ip)

\* A plausible slip: the lookup is made after the suspension, not before.
ResumeLateLookup(t, f) ==
    LET fr == frames[t]
        r == get_client(open_state, self_database(fr.database), fr.database,
                        fr.client_id)
        fr2 == [fr EXCEPT !.client = r.ret]
    IN
    /\ fr.pc = "await"
    /\ fr.fn = f
    /\ open_state' = IF r.exc = NoExc THEN close(open_state, fr.database)
                     ELSE open_state
    /\ frames' = [frames EXCEPT ![t] = IdleFrame]
    /\ last_call' = [NoCall EXCEPT !.op = f, !.self = fr.database, !.task = t,
                                   !.client_id = fr.client_id,
                                   !.include_pending = fr.include_pending,
                                   !.exc = r.exc,
                                   !.outcome = IF r.exc = NoExc THEN "returned"
                                               ELSE "raised",
                                   !.ret_str = ReturnValue(fr2).str,
                                   !.ret_num = ReturnValue(fr2).num,
                                   !.calls = Append(fr.calls, "close")]
    /\ UNCHANGED <<database, added>>

\* A suspended invocation continues after its await: the value is taken
\* from the record looked up before the suspension, db_ref.close(), return.
Resume(t, f) ==
    LET fr == frames[t] IN
    /\ fr.pc = "await"
    /\ fr.fn = f
    /\ open_state' = close(open_state, fr.database)
    /\ frames' = [frames EXCEPT ![t] = IdleFrame]
    /\ last_call' = [NoCall EXCEPT !.op = f, !.self = fr.database, !.task = t,
                                   !.client_id = fr.client_id,
                                   !.include_pending = fr.include_pending,
                                   !.outcome = "returned",
                                   !.ret_str = ReturnValue(fr).str,
                                   !.ret_num = ReturnValue(fr).num,
                                   !.calls = Append(fr.calls, "close")]
    /\ UNCHANGED <<database, added>>

add_customer_name(t, i, id) == Callback(t, "add_customer_name", i, id, FALSE)

customer_balance(t, i, id, ip) == Callback(t, "customer_balance", i, id, ip)

add_customer_name_resume(t) == Resume(t, "add_customer_name")

customer_balance_resume(t) == Resume(t, "customer_balance")

\* --------------------------------------------------------- specifications
\* The store API called directly on any of the constructed instances.
Next ==
    \/ \E i \in Inst : CallOpen(i)
    \/ \E i \in Inst : CallClose(i)
    \/ \E i \in Inst, id \in ClientId, c \in MockClient : CallAddClient(i, id, c)
    \/ \E i \in Inst, id \in ClientId : CallGetClient(i, id)

Spec == Init /\ [][Next]_vars

\* One request at a time, as main() makes them: the callbacks run in the
\* main task with a context that binds db, and db is also driven directly,
\* between requests and while a callback is suspended at its await.
NextQuery ==
    \/ CallOpen(db)
    \/ CallClose(db)
    \/ \E id \in ClientId, c \in MockClient : CallAddClient(db, id, c)
    \/ \E id \in ClientId : add_customer_name(main, db, id)
    \/ \E id \in ClientId, ip \in BOOLEAN : customer_balance(main, db, id, ip)
    \/ add_customer_name_resume(main)
    \/ customer_balance_resume(main)

SpecQuery == Init /\ [][NextQuery]_vars

\* Several callback invocations as tasks of one event loop on the imported
\* program; nothing but the callbacks touches db.
NextConc ==
    \/ \E t \in Task, id \in ClientId : add_customer_name(t, db, id)
    \/ \E t \in Task, id \in ClientId, ip \in BOOLEAN :
          customer_balance(t, db, id, ip)
    \/ \E t \in Task : add_customer_name_resume(t)
    \/ \E t \in Task : customer_balance_resume(t)

SpecConc == InitImported /\ [][NextConc]_vars

\* ================================================================ claims
IsCallback(c) == c.op \in Callbacks

Returned(c) == IsCallback(c) /\ c.outcome = "returned"

\* C1: add_client and get_client on a closed instance fail with "Database
\* is not open", whatever the mapping holds and whether or not the id is
\* present, and the failed call changes neither the flags nor the mapping.
C1_ClosedStoreRejects ==
    [][(/\ last_call'.op \in {"add_client", "get_client"}
        /\ ~open_state[last_call'.self])
       => (/\ last_call'.exc = StoreClosed
           /\ open_state' = open_state
           /\ database' = database)]_vars

\* An add_client of a present id was refused on a closed instance and the
\* record it carried is not the one stored.
C1_Witness ==
    /\ last_call.op = "add_client"
    /\ last_call.exc = StoreClosed
    /\ last_call.existed
    /\ database[last_call.client_id] # last_call.client

\* C2: a get_client(id) that immediately follows a successful
\* add_client(id, record) on the same instance returns exactly that record,
\* also when the add replaced an earlier record.
C2_RoundTrip ==
    (last_call.op = "get_client" /\ last_call.follows_add)
    => (last_call.exc = NoExc /\ last_call.ret_client = last_call.client)

\* A get_client returned the record of the add before it, which had
\* replaced a different record.
C2_Witness ==
    /\ last_call.op = "get_client"
    /\ last_call.follows_add
    /\ last_call.replaced
    /\ last_call.ret_client = last_call.client

\* C3: on an open instance, get_client(id) raises "Client not found" exactly
\* when no add_client(id, ...) has succeeded so far, and returns a record
\* exactly when one has (the mapping is the class's, so an id counts as
\* added whichever instance it was added through).
C3_NotFoundIffNeverAdded ==
    (last_call.op = "get_client" /\ last_call.was_open)
    => (/\ (last_call.exc = RecordNotFound) <=> (last_call.client_id \notin added)
        /\ (last_call.exc = NoExc) <=> (last_call.client_id \in added)
        /\ (last_call.exc = NoExc) <=> (last_call.ret_client \in MockClient)
        /\ last_call.exc # StoreClosed)

\* A get_client on an open instance did not find an id while other ids had
\* been added.
C3_Witness ==
    /\ last_call.op = "get_client"
    /\ last_call.was_open
    /\ last_call.exc = RecordNotFound
    /\ added # {}

\* C6: every flag starts closed; a flag changes only in an open() or
\* close() on its own instance; open() leaves it open and close() leaves it
\* closed whatever it was, and neither fails; add_client and get_client
\* change no flag, whether they succeed or fail.
C6_FlagLifecycle ==
    /\ \A i \in Inst : ~open_state[i]
    /\ [][/\ \A i \in Inst :
                (open_state'[i] # open_state[i])
                => (last_call'.op \in {"open", "close"} /\ last_call'.self = i)
          /\ (last_call'.op = "open")
             => (open_state'[last_call'.self] /\ last_call'.exc = NoExc)
          /\ (last_call'.op = "close")
             => (~open_state'[last_call'.self] /\ last_call'.exc = NoExc)
          /\ (last_call'.op \in {"add_client", "get_client"})
             => (open_state' = open_state)]_vars

\* open() was called on an instance that was already open, and it is open.
C6_Witness ==
    /\ last_call.op = "open"
    /\ last_call.was_open
    /\ open_state[last_call.self]

\* The ids get_client returns a record for on instance i once i is open.
Retrievable(i) ==
    {id \in ClientId :
        get_client(open(open_state, i), self_database(i), i, id).exc = NoExc}

\* C9: a call on one instance changes neither the ids retrievable through
\* another instance nor that instance's flag.
C9_InstancesIndependent ==
    [][\A i \in Inst :
          (last_call'.self # i)
          => (Retrievable(i)' = Retrievable(i) /\ open_state'[i] = open_state[i])]_vars

\* C4: customer_balance returns the settled balance of the record stored
\* under the context's client id when include_pending is false, and
\* settled + pending of that record when it is true: the lookup binds the
\* record stored under that id, and the value returned is computed from
\* the record bound.
C4_FetchBalance ==
    [][LET c == last_call'
           fr == frames[c.task]
           own == database[c.client_id]
       IN
       (c.op = "customer_balance" /\ c.exc = NoExc)
       => (/\ (c.outcome = "suspended") => (frames'[c.task].client = own)
           /\ (c.outcome = "returned" /\ c.entered)
              => (c.ret_num = IF c.include_pending
                              THEN own.balance + own.pending
                              ELSE own.balance)
           /\ (c.outcome = "returned" /\ ~c.entered)
              => (c.ret_num = IF fr.include_pending
                              THEN fr.client.balance + fr.client.pending
                              ELSE fr.client.balance))]_vars

\* customer_balance(include_pending=True) for id 1, John Doe with 1000 and
\* 12.4, returned 1012.4 while id 2 holds a record with another balance.
C4_Witness ==
    /\ Returned(last_call)
    /\ last_call.op = "customer_balance"
    /\ last_call.include_pending
    /\ last_call.client_id = 1
    /\ last_call.ret_num = 10124
    /\ 2 \in DOMAIN database
    /\ database[2].balance # database[1].balance

\* C5 as stated: a customer_balance call for a stored id, made while the
\* store is closed, fails with "Database is not open".
C5_ClosedFetchFails ==
    (/\ last_call.op = "customer_balance"
     /\ last_call.entered
     /\ ~last_call.was_open
     /\ last_call.existed)
    => (last_call.exc = StoreClosed)

\* C5 as amended: a customer_balance call for a stored id, made while the
\* store is closed, does not fail: it opens the store itself, and when it
\* returns with include_pending true the value is settled + pending.
C5_ClosedFetchSucceeds ==
    (/\ last_call.op = "customer_balance"
     /\ last_call.entered
     /\ ~last_call.was_open
     /\ last_call.existed)
    => (/\ last_call.exc = NoExc
        /\ last_call.outcome \in {"suspended", "returned"}
        /\ (last_call.outcome = "suspended") => open_state[last_call.self]
        /\ (last_call.outcome = "returned" /\ last_call.include_pending)
           => (last_call.ret_num = database[last_call.client_id].balance
                                   + database[last_call.client_id].pending))

\* John Doe was added, the store was closed, and customer_balance with
\* include_pending true returned 1012.4 without a reopen.
C5_Witness ==
    /\ last_call.op = "customer_balance"
    /\ last_call.entered
    /\ ~last_call.was_open
    /\ last_call.existed
    /\ last_call.outcome = "returned"
    /\ last_call.include_pending
    /\ last_call.ret_num = 10124

\* C7: a callback that returns has called open, get_client, close on the
\* bound store, in that order and nothing else, and the store is closed
\* when it returns, whatever its flag was before; no step of a callback
\* changes the mapping, and the client id it returns for is the id of the
\* context it was called with.
C7_OpenLookupClose ==
    [][LET c == last_call' IN
       IsCallback(c)
       => (/\ database' = database
           /\ Returned(c)
              => (/\ c.calls = <<"open", "get_client", "close">>
                  /\ c.exc = NoExc
                  /\ ~open_state'[c.self])
           /\ (c.outcome = "suspended")
              => (/\ frames'[c.task].client_id = c.client_id
                  /\ frames'[c.task].database = c.self)
           /\ ~c.entered
              => (/\ c.client_id = frames[c.task].client_id
                  /\ c.self = frames[c.task].database))]_vars

\* A callback ran from call to return on a store that was open before the
\* call, and the store is closed.
C7_Witness ==
    /\ Returned(last_call)
    /\ last_call.entered
    /\ last_call.was_open
    /\ ~open_state[last_call.self]

\* C8: when a callback is called for an absent client id, "Client not
\* found" reaches the caller and the store is closed at that moment.
C8_ClosedOnError ==
    (IsCallback(last_call) /\ last_call.exc = RecordNotFound)
    => ~open_state[last_call.self]

\* C10: with callbacks interleaved at their await only, no callback fails
\* with "Database is not open" and none for a stored id fails at all, each
\* one that returns returns the value of the record stored under its own
\* client id, and the store is closed when a callback returns and no other
\* is in flight.
C10_InterleavedCallbacks ==
    [][LET c == last_call'
           own == database[c.client_id]
       IN
       IsCallback(c)
       => (/\ c.exc # StoreClosed
           /\ (c.client_id \in DOMAIN database) => (c.exc = NoExc)
           /\ (Returned(c) /\ c.op = "add_customer_name")
              => (c.ret_str = "The customer's name is '" \o own.name \o "'")
           /\ (Returned(c) /\ c.op = "customer_balance")
              => (c.ret_num = IF c.include_pending
                              THEN own.balance + own.pending
                              ELSE own.balance)
           /\ (Returned(c) /\ \A u \in Task : frames'[u].pc = "idle")
              => ~open_state'[c.self])]_vars

\* A callback resumed after its await and returned its own client's value
\* while a callback for a different client id is still suspended.
C10_Witness ==
    /\ Returned(last_call)
    /\ ~last_call.entered
    /\ last_call.op = "customer_balance"
    /\ last_call.ret_num = database[last_call.client_id].balance
    /\ \E u \in Task :
          /\ u # last_call.task
          /\ frames[u].pc = "await"
          /\ frames[u].client_id # last_call.client_id

====
